---- MODULE Spec2Model ----
(***************************************************************************)
(* A model of github.com/flamego/template: the directory / bundle          *)
(* resolvers (newFileSystem, EmbedFS), the template set compiler           *)
(* (newTemplate), the renderer (template.HTML) and the middleware factory  *)
(* (Templater) with its per-request handler.                               *)
(*                                                                         *)
(* Strings (paths, names, extensions, response bodies, error messages) are *)
(* sequences of tokens.  A token is either "." or "/" or a run of other    *)
(* characters, so that the two characters the code looks for keep their    *)
(* positions: getExt finds the first ".", Join and Rel work on "/".        *)
(* The platform is a Unix one: filepath.Separator is "/".                  *)
(***************************************************************************)
EXTENDS Integers, Sequences, FiniteSets, TLC

(***************************************************************************)
(* Strings                                                                 *)
(***************************************************************************)

\* The tokens that occur in file names, in byte order ("." and "/" sort
\* before every letter and digit), as os.ReadDir sorts directory entries.
TokenOrder ==
    << ".", "/", "about", "custom", "d", "extra", "home", "html", "local",
       "nodir", "notes", "part", "site", "templates", "tmpl", "txt" >>

Rank(tok) == CHOOSE i \in DOMAIN TokenOrder : TokenOrder[i] = tok

Range(s) == { s[i] : i \in DOMAIN s }

MinOf(S) == CHOOSE x \in S : \A y \in S : x <= y

\* a < b for two file names, byte-wise (sort.Slice in os.ReadDir).
LessStr(a, b) ==
    LET n    == IF Len(a) < Len(b) THEN Len(a) ELSE Len(b)
        diff == { i \in 1..n : a[i] # b[i] }
    IN  IF diff = {} THEN Len(a) < Len(b)
        ELSE Rank(a[MinOf(diff)]) < Rank(b[MinOf(diff)])

\* strings.Contains
Contains(text, sub) ==
    \E i \in 0..(Len(text) - Len(sub)) :
        \A j \in 1..Len(sub) : text[i + j] = sub[j]

\* strings.HasPrefix
HasPrefix(s, p) == Len(p) <= Len(s) /\ SubSeq(s, 1, Len(p)) = p

\* fmt's %q
Quote(s) == << "\"" >> \o s \o << "\"" >>

\* errors.Wrap(err, msg): "msg: err"
Wrap(err, msg) == msg \o << ": " >> \o err

Separator == "/"

\* filepath.ToSlash: every Separator becomes "/".
ToSlash(path) == [ i \in DOMAIN path |-> IF path[i] = Separator THEN "/" ELSE path[i] ]

\* filepath.Join(dir, rel), for operands that are already clean.
Join(dir, rel) ==
    IF dir = << >> THEN rel
    ELSE IF rel = << >> THEN dir
    ELSE dir \o << Separator >> \o rel

\* filepath.Rel(base, targ) for a targ that is base or lies under it (the
\* only paths a walk of base yields).
Rel(base, targ) ==
    IF targ = base THEN << "." >>
    ELSE SubSeq(targ, Len(base) + 2, Len(targ))

\* getExt returns the extension of given name, prefixed with the dot.
getExt(name) ==
    LET dots == { i \in DOMAIN name : name[i] = "." }
    IN  IF dots = {} THEN << >>
        ELSE SubSeq(name, MinOf(dots), Len(name))

(***************************************************************************)
(* The disk: a function from paths to entries.  An entry is a directory or *)
(* a regular file with its content; a file may be unreadable (its mode     *)
(* denies reading).  No entry is a symbolic link.                          *)
(***************************************************************************)

\* Template sources.  The template language is an opaque dependency: a
\* source either parses or not, and a parsed one either executes or fails
\* part of the way through.
SrcEmpty == ""
SrcA     == "A"
SrcB     == "B"
SrcHello == "Hello, {{.Name}}!"
SrcBad   == "{{"
SrcRt    == "Hi{{.Name.X}}"
Sources  == { SrcEmpty, SrcA, SrcB, SrcHello, SrcBad, SrcRt }

DirEntry == [ kind |-> "dir", data |-> SrcEmpty, readable |-> TRUE ]
FileEntry(src) == [ kind |-> "file", data |-> src, readable |-> TRUE ]
LockedEntry(src) == [ kind |-> "file", data |-> src, readable |-> FALSE ]

\* isDir returns true if given path is a directory, and returns false when
\* it's a file or does not exist.
isDir(fsys, path) == path \in DOMAIN fsys /\ fsys[path].kind = "dir"

\* isFile returns true if given path exists as a file (i.e. not a directory).
isFile(fsys, path) == path \in DOMAIN fsys /\ fsys[path].kind # "dir"

\* os.ReadFile / embed.FS.ReadFile
ReadFile(fsys, path) ==
    IF path \notin DOMAIN fsys
    THEN [ data |-> SrcEmpty,
           err  |-> << "open " >> \o path \o << ": no such file or directory" >> ]
    ELSE IF fsys[path].kind = "dir"
    THEN [ data |-> SrcEmpty,
           err  |-> << "read " >> \o path \o << ": is a directory" >> ]
    ELSE IF ~fsys[path].readable
    THEN [ data |-> SrcEmpty,
           err  |-> << "open " >> \o path \o << ": permission denied" >> ]
    ELSE [ data |-> fsys[path].data, err |-> << >> ]

\* filepath.EvalSymlinks of an existing directory of a disk without links.
EvalSymlinks(fsys, path) == [ path |-> path, err |-> << >> ]

\* The entries of directory dir: the paths dir/name with a one-segment name.
Children(fsys, dir) ==
    { p \in DOMAIN fsys :
        /\ HasPrefix(p, dir \o << Separator >>)
        /\ Len(p) > Len(dir) + 1
        /\ \A i \in (Len(dir) + 2)..Len(p) : p[i] # Separator }

\* os.ReadDir: the entries sorted by file name.
RECURSIVE SortPaths(_)
SortPaths(S) ==
    IF S = {} THEN << >>
    ELSE LET first == CHOOSE p \in S : \A q \in S \ {p} : LessStr(p, q)
         IN  << first >> \o SortPaths(S \ {first})

\* filepath.WalkDir / fs.WalkDir: the paths the walk function is called with,
\* in order (every callback of this package returns nil for a directory).
RECURSIVE WalkFrom(_, _)
RECURSIVE WalkAll(_, _)
WalkFrom(fsys, path) ==
    IF isDir(fsys, path)
    THEN << path >> \o WalkAll(fsys, SortPaths(Children(fsys, path)))
    ELSE << path >>
WalkAll(fsys, paths) ==
    IF paths = << >> THEN << >>
    ELSE WalkFrom(fsys, Head(paths)) \o WalkAll(fsys, Tail(paths))

(***************************************************************************)
(* File and FileSystem                                                     *)
(***************************************************************************)

\* type file struct{ name, data, ext }.  Data() of this package's file never
\* fails; a File supplied by the caller may (dataErr is the error it gives).
file(name, data, ext) == [ name |-> name, data |-> data, ext |-> ext, dataErr |-> << >> ]

\* A FileSystem value; nil is the absent Options.FileSystem.
NilFS == [ nil |-> TRUE, files |-> << >> ]
fileSystem(files) == [ nil |-> FALSE, files |-> files ]

\* relpath[:len(relpath)-len(ext)] panics when ext is longer than relpath.
PanicBounds == << "panic: runtime error: slice bounds out of range" >>

\* The walk function of newFileSystem for one path: the files so far and the
\* error it returns.
LocalWalkFn(fsys, dir, allowedExtensions, path, files) ==
    LET ext == getExt(path)
    IN  IF \E i \in DOMAIN allowedExtensions : allowedExtensions[i] = ext
        THEN LET rf      == ReadFile(fsys, path)
                 relpath == Rel(dir, path)
                 name    == ToSlash(SubSeq(relpath, 1, Len(relpath) - Len(ext)))
             IN  IF rf.err # << >>
                 THEN [ files |-> files, err |-> Wrap(rf.err, << "read" >>) ]
                 ELSE IF Len(relpath) < Len(ext)
                 THEN [ files |-> files, err |-> PanicBounds ]
                 ELSE [ files |-> Append(files, file(name, rf.data, ext)),
                        err   |-> << >> ]
        ELSE [ files |-> files, err |-> << >> ]

RECURSIVE LocalWalk(_, _, _, _, _)
LocalWalk(fsys, dir, allowedExtensions, paths, files) ==
    IF paths = << >> THEN [ files |-> files, err |-> << >> ]
    ELSE LET r == LocalWalkFn(fsys, dir, allowedExtensions, Head(paths), files)
         IN  IF r.err # << >> THEN r
             ELSE LocalWalk(fsys, dir, allowedExtensions, Tail(paths), r.files)

\* filepath.WalkDir(dir, fn) of newFileSystem: the files collected and the
\* error of the walk.
LocalWalkDir(fsys, dir, allowedExtensions) ==
    IF dir \in DOMAIN fsys
    THEN LocalWalk(fsys, dir, allowedExtensions, WalkFrom(fsys, dir), << >>)
    ELSE [ files |-> << >>,
           err   |-> << "lstat " >> \o dir \o << ": no such file or directory" >> ]

\* What newFileSystem returns once the walk has returned w.
LocalWalked(dir, w) ==
    IF w.err = PanicBounds THEN [ fs |-> NilFS, err |-> PanicBounds ]
    ELSE IF w.err # << >>
    THEN [ fs |-> NilFS, err |-> Wrap(w.err, << "walk " >> \o Quote(dir)) ]
    ELSE [ fs |-> fileSystem(w.files), err |-> << >> ]

\* newFileSystem constructs and returns a FileSystem from local disk.
newFileSystem(fsys, dir, allowedExtensions) ==
    LocalWalked(dir, LocalWalkDir(fsys, dir, allowedExtensions))

\* The walk function of EmbedFS for one path.  Its loop over the allowed
\* extensions has no break: the file is appended once per matching entry.
RECURSIVE EmbedMatches(_, _, _, _, _, _)
EmbedMatches(efs, path, relpath, ext, allowed, files) ==
    IF allowed = << >> THEN [ files |-> files, err |-> << >> ]
    ELSE IF Head(allowed) # ext
    THEN EmbedMatches(efs, path, relpath, ext, Tail(allowed), files)
    ELSE LET rf   == ReadFile(efs, path)
             name == ToSlash(SubSeq(relpath, 1, Len(relpath) - Len(ext)))
         IN  IF rf.err # << >>
             THEN [ files |-> files, err |-> Wrap(rf.err, << "read" >>) ]
             ELSE EmbedMatches(efs, path, relpath, ext, Tail(allowed),
                               Append(files, file(name, rf.data, ext)))

EmbedWalkFn(efs, dir, allowedExtensions, path, files) ==
    IF isDir(efs, path) THEN [ files |-> files, err |-> << >> ]
    ELSE LET relpath == Rel(dir, path)
         IN  EmbedMatches(efs, path, relpath, getExt(relpath), allowedExtensions, files)

RECURSIVE EmbedWalk(_, _, _, _, _)
EmbedWalk(efs, dir, allowedExtensions, paths, files) ==
    IF paths = << >> THEN [ files |-> files, err |-> << >> ]
    ELSE LET r == EmbedWalkFn(efs, dir, allowedExtensions, Head(paths), files)
         IN  IF r.err # << >> THEN r
             ELSE EmbedWalk(efs, dir, allowedExtensions, Tail(paths), r.files)

\* fs.WalkDir(efs, dir, fn) of EmbedFS: the files collected and the error.
EmbedWalkDir(efs, dir, allowedExtensions) ==
    IF dir \in DOMAIN efs
    THEN EmbedWalk(efs, dir, allowedExtensions, WalkFrom(efs, dir), << >>)
    ELSE [ files |-> << >>,
           err   |-> << "open " >> \o dir \o << ": file does not exist" >> ]

\* What EmbedFS returns once the walk has returned w.
EmbedWalked(w) ==
    IF w.err # << >>
    THEN [ fs |-> NilFS, err |-> Wrap(w.err, << "walk" >>) ]
    ELSE [ fs |-> fileSystem(w.files), err |-> << >> ]

\* EmbedFS wraps the given embed.FS into a FileSystem.
EmbedFS(efs, dir, allowedExtensions) ==
    EmbedWalked(EmbedWalkDir(efs, dir, allowedExtensions))

(***************************************************************************)
(* The template set (html/template, an opaque dependency) and newTemplate  *)
(***************************************************************************)

\* A *gotemplate.Template: nil, or the set of named, parsed templates.  The
\* root "Flamego.Template" has no body and is not an entry; function maps and
\* delimiters only reach the dependency and are left out.
EmptySet == [ n \in {} |-> SrcEmpty ]
NilTemplate == [ nil |-> TRUE, set |-> EmptySet ]
Compiled(set) == [ nil |-> FALSE, set |-> set ]

\* Template.Parse: the error, nil (<< >>) when the source is well formed.
Parse(name, src) ==
    IF src = SrcBad
    THEN << "template: " >> \o name \o << ":1: unclosed action" >>
    ELSE << >>

\* tpl.New(name) followed by Parse(src): the definition under name is
\* replaced, except that an empty body does not replace an existing one.
Define(set, name, src) ==
    IF name \in DOMAIN set /\ src = SrcEmpty THEN set
    ELSE [ n \in DOMAIN set \cup { name } |-> IF n = name THEN src ELSE set[n] ]

\* Template.ExecuteTemplate(buf, name, data): what it writes to buf and the
\* error.  A failing execution has written what precedes the failing action.
ExecuteTemplate(tpl, name, data) ==
    IF name \notin DOMAIN tpl.set
    THEN [ out |-> << >>,
           err |-> << "html/template: " >> \o Quote(name) \o << " is undefined" >> ]
    ELSE LET src == tpl.set[name]
         IN  IF src = SrcHello
             THEN [ out |-> << "Hello, ", data["Name"], "!" >>, err |-> << >> ]
             ELSE IF src = SrcRt
             THEN [ out |-> << "Hi" >>,
                    err |-> << "template: " >> \o name
                            \o << ": can't evaluate field X in type string" >> ]
             ELSE IF src = SrcEmpty
             THEN [ out |-> << >>, err |-> << >> ]
             ELSE [ out |-> << src >>, err |-> << >> ]

Reverse(s) == [ i \in DOMAIN s |-> s[Len(s) + 1 - i] ]

\* A loop over dirs that would return an error for an append directory that
\* does not exist instead of leaving it alone.
ResolveDirsStrict(fsys, dirs, i) ==
    LET missing == { j \in DOMAIN dirs : ~isDir(fsys, dirs[j]) }
    IN  IF missing = {} THEN [ dirs |-> dirs, err |-> << >> ]
        ELSE [ dirs |-> dirs,
               err  |-> Wrap(<< "lstat " >> \o dirs[MinOf(missing)]
                                 \o << ": no such file or directory" >>,
                             << "eval symlinks for " >>
                                 \o Quote(dirs[MinOf(missing)])) ]

\* dirs[i], err = filepath.EvalSymlinks(dirs[i]) for the directories that exist.
RECURSIVE ResolveDirs(_, _, _)
ResolveDirs(fsys, dirs, i) ==
    IF i > Len(dirs) THEN [ dirs |-> dirs, err |-> << >> ]
    ELSE IF ~isDir(fsys, dirs[i]) THEN ResolveDirs(fsys, dirs, i + 1)
    ELSE LET e == EvalSymlinks(fsys, dirs[i])
         IN  IF e.err # << >>
             THEN [ dirs |-> dirs,
                    err  |-> Wrap(e.err, << "eval symlinks for " >> \o Quote(e.path)) ]
             ELSE ResolveDirs(fsys, [ dirs EXCEPT ![i] = e.path ], i + 1)

\* "Loop over append directories and break out once found."
RECURSIVE ReadAppend(_, _, _)
ReadAppend(fsys, dirs, rel) ==
    IF dirs = << >> THEN [ data |-> SrcEmpty, err |-> << >> ]
    ELSE LET fpath == Join(Head(dirs), rel)
         IN  IF ~isFile(fsys, fpath) THEN ReadAppend(fsys, Tail(dirs), rel)
             ELSE LET rf == ReadFile(fsys, fpath)
                  IN  IF rf.err # << >>
                      THEN [ data |-> SrcEmpty, err |-> Wrap(rf.err, << "read" >>) ]
                      ELSE [ data |-> rf.data, err |-> << >> ]

\* The source newTemplate parses for file f, or the error it returns.
FileSource(fsys, dirs, f) ==
    LET over == ReadAppend(fsys, dirs, f.name \o f.ext)
    IN  IF over.err # << >> THEN over
        ELSE IF over.data = SrcEmpty
        THEN IF f.dataErr # << >>
             THEN [ data |-> SrcEmpty,
                    err  |-> Wrap(f.dataErr, << "get data of " >> \o Quote(f.name)) ]
             ELSE [ data |-> f.data, err |-> << >> ]
        ELSE over

\* A loop over fs.Files() that would leave out a file whose content cannot be
\* fetched or parsed and go on with the next one.
RECURSIVE CompileFilesSkipping(_, _, _, _)
CompileFilesSkipping(fsys, dirs, files, set) ==
    IF files = << >> THEN [ tpl |-> Compiled(set), err |-> << >> ]
    ELSE LET f   == Head(files)
             src == FileSource(fsys, dirs, f)
         IN  IF src.err # << >> \/ Parse(f.name, src.data) # << >>
             THEN CompileFilesSkipping(fsys, dirs, Tail(files), set)
             ELSE CompileFilesSkipping(fsys, dirs, Tail(files),
                                       Define(set, f.name, src.data))

\* The loop of newTemplate over fs.Files().
RECURSIVE CompileFiles(_, _, _, _)
CompileFiles(fsys, dirs, files, set) ==
    IF files = << >> THEN [ tpl |-> Compiled(set), err |-> << >> ]
    ELSE LET f   == Head(files)
             src == FileSource(fsys, dirs, f)
             bad == Parse(f.name, src.data)
         IN  IF src.err # << >> THEN [ tpl |-> NilTemplate, err |-> src.err ]
             ELSE IF bad # << >>
             THEN [ tpl |-> NilTemplate,
                    err |-> Wrap(bad, << "parse " >> \o Quote(f.name)) ]
             ELSE CompileFiles(fsys, dirs, Tail(files), Define(set, f.name, src.data))

\* "if fs == nil { fs, err = newFileSystem(dir, allowedExtensions) }"
PrimaryFS(fsys, allowedExtensions, fs, dir) ==
    IF fs.nil THEN newFileSystem(fsys, dir, allowedExtensions)
    ELSE [ fs |-> fs, err |-> << >> ]

\* newTemplate with the FileSystem made and the append directories dirs, in
\* reverse order and resolved.
CompileWith(fsys, made, dirs) ==
    IF made.err = PanicBounds THEN [ tpl |-> NilTemplate, err |-> PanicBounds ]
    ELSE IF made.err # << >>
    THEN [ tpl |-> NilTemplate, err |-> Wrap(made.err, << "new file system" >>) ]
    ELSE IF dirs.err # << >> THEN [ tpl |-> NilTemplate, err |-> dirs.err ]
    ELSE CompileFiles(fsys, dirs.dirs, made.fs.files, EmptySet)

\* A newTemplate that would enumerate the first append directory as well as
\* the primary one (its readable files with an allowed extension).
newTemplateWithAppendFiles(fsys, allowedExtensions, fs, dir, others) ==
    LET made  == PrimaryFS(fsys, allowedExtensions, fs, dir)
        paths == IF others = << >> \/ made.err # << >> THEN << >>
                 ELSE SortPaths({ p \in Children(fsys, others[1]) :
                                    /\ isFile(fsys, p)
                                    /\ fsys[p].readable
                                    /\ getExt(Rel(others[1], p))
                                           \in Range(allowedExtensions) })
        more  == [ i \in DOMAIN paths |->
                     LET relpath == Rel(others[1], paths[i])
                     IN  file(SubSeq(relpath, 1, Len(relpath) - Len(getExt(relpath))),
                              fsys[paths[i]].data, getExt(relpath)) ]
    IN  CompileWith(fsys,
                    [ made EXCEPT !.fs.files = @ \o more ],
                    ResolveDirs(fsys, Reverse(others), 1))

\* A newTemplate that would leave the append directories out when a
\* FileSystem is supplied.
newTemplateBundleAlone(fsys, allowedExtensions, fs, dir, others) ==
    CompileWith(fsys, PrimaryFS(fsys, allowedExtensions, fs, dir),
                ResolveDirs(fsys, IF fs.nil THEN Reverse(others) ELSE << >>, 1))

newTemplate(fsys, allowedExtensions, fs, dir, others) ==
    CompileWith(fsys, PrimaryFS(fsys, allowedExtensions, fs, dir),
                ResolveDirs(fsys, Reverse(others), 1))

(***************************************************************************)
(* Bounds and inputs                                                       *)
(***************************************************************************)

\* Buffers alive at once (in the pool or held by a request).
MaxBuffers == 2
\* The calls of HTML counted (the count stops there).
MaxRenders == 2

\* The requests in flight at once: a request and one concurrent with it.
Requests == { 1, 2 }

Templates == << "templates" >>
SiteD     == << "site", ".", "d" >>
Custom    == << "custom" >>
Local     == << "local" >>
NoDir     == << "nodir" >>
Tmpl      == << ".", "tmpl" >>
Html      == << ".", "html" >>

\* The disk when the process starts.
InitialDisk ==
    ( Templates :> DirEntry )
 @@ ( << "templates", "/", "home", ".", "tmpl" >>  :> FileEntry(SrcHello) )
 @@ ( << "templates", "/", "about", ".", "html" >> :> FileEntry(SrcRt) )
 @@ ( << "templates", "/", "notes", ".", "txt" >>  :> FileEntry(SrcB) )
 @@ ( << "templates", "/", "part" >>               :> DirEntry )
 @@ ( << "templates", "/", "part", "/", "home", ".", "tmpl" >> :> FileEntry(SrcA) )
 @@ ( SiteD :> DirEntry )
 @@ ( << "site", ".", "d", "/", "home", ".", "tmpl" >> :> FileEntry(SrcHello) )
 @@ ( Custom :> DirEntry )
 @@ ( << "custom", "/", "home", ".", "tmpl" >>  :> FileEntry(SrcB) )
 @@ ( << "custom", "/", "extra", ".", "tmpl" >> :> FileEntry(SrcA) )
 @@ ( << "custom", "/", "part", ".", "tmpl" >>  :> DirEntry )
 @@ ( Local :> DirEntry )
 @@ ( << "local", "/", "home", ".", "tmpl" >>   :> FileEntry(SrcA) )
 @@ ( << "local", "/", "about", ".", "html" >>  :> LockedEntry(SrcA) )

HomeOf(dir) == dir \o << "/", "home", ".", "tmpl" >>

\* The files an editor changes while the handler is serving, and what it
\* writes to them.
EditablePaths == { HomeOf(Templates), HomeOf(Custom) }
EditSources == { SrcEmpty, SrcBad }

\* A disk like the initial one with other contents in the three home.tmpl
\* (absent: no such file).
Absent == "absent"
DiskWith(primary, custom, local) ==
    LET put(d, path, src) ==
            IF src = Absent THEN [ q \in DOMAIN d \ { path } |-> d[q] ]
            ELSE [ d EXCEPT ![path] = FileEntry(src) ]
    IN  put(put(put(InitialDisk, HomeOf(Templates), primary),
                HomeOf(Custom), custom),
            HomeOf(Local), local)

\* The disks the first compilation is tried on.
DiskChoices ==
    { DiskWith(p, c, l) :
        p \in { SrcHello, SrcEmpty, SrcBad },
        c \in { Absent, SrcB, SrcEmpty, SrcBad },
        l \in { Absent, SrcA, SrcEmpty } }

\* The embedded bundle (//go:embed), fixed at build time.
Bundle ==
    ( Templates :> DirEntry )
 @@ ( << "templates", "/", "home", ".", "tmpl" >>  :> FileEntry(SrcHello) )
 @@ ( << "templates", "/", "about", ".", "html" >> :> FileEntry(SrcA) )

\* Options as the caller passes them to Templater ("" and nil are << >>).
Options(fs, dir, others, exts, ctype) ==
    [ FileSystem |-> fs, Directory |-> dir, AppendDirectories |-> others,
      Extensions |-> exts, ContentType |-> ctype ]

\* A FileSystem of the caller's own whose second File fails to give its data.
BrokenFS ==
    fileSystem(<< file(<< "home" >>, SrcA, Tmpl),
                  [ name |-> << "about" >>, data |-> SrcEmpty, ext |-> Tmpl,
                    dataErr |-> << "unexpected EOF" >> ] >>)

ZeroOptions    == Options(NilFS, << >>, << >>, << >>, << >>)
OverlayOptions == Options(NilFS, Templates, << Custom >>, << >>, << "text/xml" >>)
BundleOptions  ==
    Options(EmbedFS(Bundle, Templates, << Tmpl >>).fs, << >>, << Custom >>, << >>, << >>)
MissingOptions == Options(NilFS, NoDir, << >>, << >>, << >>)
\* Directory names a regular file with an allowed extension.
FileOptions    == Options(NilFS, HomeOf(Templates), << >>, << >>, << >>)
\* The bundle alone: no Directory, no AppendDirectories.
EmbedOptions   ==
    Options(EmbedFS(Bundle, Templates, << Tmpl, Html >>).fs, << >>, << >>, << >>, << >>)

\* The configurations the handler is run with.
ServeOptions ==
    { ZeroOptions, OverlayOptions, BundleOptions, MissingOptions, FileOptions,
      EmbedOptions }

\* The configurations the first compilation is tried with.
OptionChoices ==
    ServeOptions \cup
    { Options(NilFS, SiteD, << >>, << >>, << >>),
      Options(NilFS, Custom, << >>, << >>, << >>),
      Options(NilFS, << >>, << Custom, Local >>, << Tmpl >>, << >>),
      Options(NilFS, << >>, << Local, Custom >>, << Tmpl >>, << >>),
      Options(NilFS, << >>, << Local >>, << >>, << >>),
      Options(NilFS, << >>, << NoDir, Custom >>, << >>, << >>),
      Options(EmbedFS(Bundle, Templates, << Tmpl >>).fs, << >>, << Custom, Local >>,
              << >>, << >>),
      Options(BrokenFS, << >>, << >>, << >>, << >>) }

\* flamego.EnvType
EnvTypeDev  == "development"
EnvTypeProd == "production"
EnvTypeTest == "test"
EnvTypes    == { EnvTypeDev, EnvTypeProd, EnvTypeTest }

\* What a route handler does with the injected Template and Data:
\* data["Name"] = who; t.HTML(status, name).
RouteCalls ==
    { [ status |-> 200, name |-> << "home" >>,  who |-> "Flamego" ],
      [ status |-> 404, name |-> << "home" >>,  who |-> "Joe" ],
      [ status |-> 200, name |-> << "about" >>, who |-> "Flamego" ],
      [ status |-> 200, name |-> << "extra" >>, who |-> "Flamego" ] }

(***************************************************************************)
(* The response sink (http.ResponseWriter) and http.Error                  *)
(***************************************************************************)

StatusInternalServerError == 500
StatusText500 == << "Internal Server Error" >>

\* Nothing written yet: no header set, no status line, no body.
NoResponse == [ log |-> << >>, contentType |-> << >>, status |-> 0, body |-> << >> ]

SetContentType(w, value) ==
    [ w EXCEPT !.log = Append(@, "Header.Set"), !.contentType = value ]

\* Only the first WriteHeader sends the status line.
WriteHeader(w, code) ==
    [ w EXCEPT !.log = Append(@, "WriteHeader"),
               !.status = IF @ = 0 THEN code ELSE @ ]

Write(w, bytes) ==
    [ w EXCEPT !.log = Append(@, "Write"), !.body = @ \o bytes ]

\* http.Error(w, msg, code)
HttpError(w, msg, code) ==
    Write(WriteHeader(SetContentType(w, << "text/plain; charset=utf-8" >>), code),
          msg \o << "\n" >>)

(***************************************************************************)
(* Templater, the request handler it returns, and template.HTML            *)
(***************************************************************************)

\* parseOptions of Templater
parseOptions(opts) ==
    [ opts EXCEPT
        !.Directory   = IF @ = << >> THEN Templates ELSE @,
        !.Extensions  = IF Len(@) = 0 THEN << Tmpl, Html >> ELSE @,
        !.ContentType = IF @ = << >> THEN << "text/html" >> ELSE @ ]

\* newTemplate(opt.Extensions, ..., opt.FileSystem, opt.Directory,
\* opt.AppendDirectories...), as Templater and its handler call it.
Compile(fsys, o) ==
    newTemplate(fsys, o.Extensions, o.FileSystem, o.Directory, o.AppendDirectories)

\* A setup that would return the handler whatever the first compilation
\* returned.
SetupWithNoPanic(o, c) ==
    [ opt |-> o, tpl |-> c.tpl, err |-> << >>, panic |-> << >> ]

\* The setup of Templater with the parsed options o, the first compilation
\* having returned c: the set the handler closes over, or the panic.  A
\* runtime panic inside newFileSystem unwinds through newTemplate and
\* Templater: its value is the runtime error, without the prefix.
SetupWith(o, c) ==
    [ opt |-> o, tpl |-> c.tpl, err |-> c.err,
      panic |-> IF c.err = PanicBounds THEN PanicBounds
                ELSE IF c.err # << >>
                THEN << "template: new template: " >> \o c.err
                ELSE << >> ]

\* The setup of Templater: the parsed options and the first compilation.
TemplaterSetup(fsys, opts) ==
    SetupWith(parseOptions(opts), Compile(fsys, parseOptions(opts)))

\* The condition under which the request handler compiles again.
Recompiles(e, o) ==
    e = EnvTypeDev /\ (o.Directory # << >> \/ Len(o.AppendDirectories) > 0)

\* A handler that would assign the recompilation to the variables of the
\* closure ("tpl, err = newTemplate(...)" for "tpl, err := newTemplate(...)").
HandlerWithAssign(e, o, shared, c) ==
    IF ~Recompiles(e, o)
    THEN [ mapped |-> TRUE, tpl |-> shared, recompiled |-> FALSE, err |-> << >>,
           resp |-> NoResponse, shared |-> shared ]
    ELSE IF c.err = PanicBounds
    THEN [ mapped |-> FALSE, tpl |-> shared, recompiled |-> TRUE, err |-> PanicBounds,
           resp |-> NoResponse, shared |-> shared ]
    ELSE IF c.err # << >>
    THEN [ mapped |-> FALSE, tpl |-> c.tpl, recompiled |-> TRUE, err |-> c.err,
           resp |-> HttpError(NoResponse, << "template: " >> \o c.err,
                              StatusInternalServerError),
           shared |-> c.tpl ]
    ELSE [ mapped |-> TRUE, tpl |-> c.tpl, recompiled |-> TRUE, err |-> << >>,
           resp |-> NoResponse, shared |-> c.tpl ]

\* The handler Templater returns, for one request, newTemplate
\* returning c when it is called: the renderer it builds
\* (t.Template), whether it maps it into the context, what it has written to
\* the response, and the set the closure holds afterwards (the tpl and err
\* of the recompilation are new variables of the if block).  When
\* newFileSystem panics, the handler unwinds having written nothing.
HandlerWith(e, o, shared, c) ==
    IF ~Recompiles(e, o)
    THEN [ mapped |-> TRUE, tpl |-> shared, recompiled |-> FALSE, err |-> << >>,
           resp |-> NoResponse, shared |-> shared ]
    ELSE IF c.err = PanicBounds
    THEN [ mapped |-> FALSE, tpl |-> shared, recompiled |-> TRUE, err |-> PanicBounds,
           resp |-> NoResponse, shared |-> shared ]
    ELSE IF c.err # << >>
    THEN [ mapped |-> FALSE, tpl |-> shared, recompiled |-> TRUE, err |-> c.err,
           resp |-> HttpError(NoResponse, << "template: " >> \o c.err,
                              StatusInternalServerError),
           shared |-> shared ]
    ELSE [ mapped |-> TRUE, tpl |-> c.tpl, recompiled |-> TRUE, err |-> << >>,
           resp |-> NoResponse, shared |-> shared ]

\* Data is a map[string]interface{}.
EmptyData == [ k \in {} |-> "" ]
SetKey(data, key, value) ==
    [ k \in DOMAIN data \cup { key } |-> IF k = key THEN value ELSE data[k] ]

\* HTML up to ExecuteTemplate: the Data mapping with the render duration
\* injected, what the execution appends to the buffer, and its error.
HTMLExecute(t, name, data, content) ==
    LET d == SetKey(data, "RenderDuration", "func() string")
        x == ExecuteTemplate(t, name, d)
    IN  [ data |-> d, content |-> content \o x.out, err |-> x.err ]

\* A responseServerError that would answer with the error text in every
\* environment.
responseServerErrorVerbose(w, e, err) ==
    [ resp   |-> HttpError(w, err, StatusInternalServerError),
      logged |-> << "rendering" >> ]

\* responseServerError: the error is logged and answered with a 500 whose
\* body depends on the environment.
responseServerError(w, e, err) ==
    [ resp   |-> HttpError(w, IF e = EnvTypeDev THEN err ELSE StatusText500,
                           StatusInternalServerError),
      logged |-> << "rendering" >> ]

\* How many of n bytes the sink takes in one Write: all, or (a failed write)
\* none.
WriteCounts(n) == { 0, n }

\* bytes.Buffer.WriteTo(w) when the sink takes the first m bytes: the sink,
\* what stays in the buffer, and whether it returns an error.
WriteTo(content, w, m) ==
    IF Len(content) = 0
    THEN [ resp |-> w, content |-> << >>, failed |-> FALSE ]
    ELSE [ resp    |-> Write(w, SubSeq(content, 1, m)),
           content |-> SubSeq(content, m + 1, Len(content)),
           failed  |-> m < Len(content) ]

\* An HTML that would write the status before it sets the header.
HTMLRespondStatusFirst(w, e, contentType, status, content, err, m) ==
    IF err # << >>
    THEN [ resp    |-> responseServerError(w, e, err).resp,
           content |-> content,
           logged  |-> responseServerError(w, e, err).logged ]
    ELSE [ resp    |-> WriteTo(content,
                               SetContentType(WriteHeader(w, status),
                                              contentType \o << "; charset=utf-8" >>),
                               m).resp,
           content |-> SubSeq(content, m + 1, Len(content)),
           logged  |-> IF m < Len(content)
                       THEN << "[template] Failed to write out rendered HTML" >>
                       ELSE << >> ]

\* An HTML that would set the header and the status before it looks at the
\* error of the execution, and write out the buffer whatever the error.
HTMLRespondEager(w, e, contentType, status, content, err, m) ==
    LET w2 == WriteHeader(SetContentType(w, contentType \o << "; charset=utf-8" >>),
                          status)
        wt == WriteTo(content, w2, m)
    IN  IF err # << >>
        THEN [ resp    |-> responseServerError(wt.resp, e, err).resp,
               content |-> wt.content,
               logged  |-> responseServerError(wt.resp, e, err).logged ]
        ELSE [ resp |-> wt.resp, content |-> wt.content,
               logged |-> IF wt.failed
                          THEN << "[template] Failed to write out rendered HTML" >>
                          ELSE << >> ]

\* HTML after ExecuteTemplate, the sink taking the first m bytes of a write.
HTMLRespond(w, e, contentType, status, content, err, m) ==
    IF err # << >>
    THEN LET r == responseServerError(w, e, err)
         IN  [ resp |-> r.resp, content |-> content, logged |-> r.logged ]
    ELSE LET w1 == SetContentType(w, contentType \o << "; charset=utf-8" >>)
             w2 == WriteHeader(w1, status)
             wt == WriteTo(content, w2, m)
         IN  [ resp |-> wt.resp, content |-> wt.content,
               logged |-> IF wt.failed
                          THEN << "[template] Failed to write out rendered HTML" >>
                          ELSE << >> ]

\* A deferred function that would put the buffer back as it is.
HTMLDeferredNoReset(pool, contents, b) ==
    [ pool |-> pool \cup { b }, contents |-> contents ]

\* The deferred function of HTML: buf.Reset(); t.bufPool.Put(buf).
HTMLDeferred(pool, contents, b) ==
    [ pool |-> pool \cup { b }, contents |-> [ contents EXCEPT ![b] = << >> ] ]

(***************************************************************************)
(* State                                                                   *)
(***************************************************************************)

VARIABLES
    env,      \* flamego.Env(), set before Templater is called
    opt,      \* the Options: as passed, then (serving) as parsed by Templater
    disk,     \* the files on disk
    phase,    \* "new": Templater not called; "serving"; "panicked"
    panicMsg, \* the value Templater panicked with
    tpl,      \* the template set the returned handler closes over
    bufPool,  \* the buffers in the sync.Pool
    bufs,     \* the content of every buffer
    reqs,     \* the requests in flight: position, renderer, response, log
    renders   \* history: the calls of HTML that have returned (up to MaxRenders)

vars == << env, opt, disk, phase, panicMsg, tpl, bufPool, bufs, reqs, renders >>

BufferIds == 1..MaxBuffers

\* No request.  pc: "idle"; "route" (the middleware has mapped Template and
\* Data, the route handler runs next); "defer" (HTML has answered, its
\* deferred function runs next); "done" (the middleware has answered itself
\* and the chain has stopped); "compile" (the handler is inside newTemplate:
\* newFileSystem has returned the Files made, the loop over them runs
\* next).  afterFailure is history: when the request arrived, the handler
\* had answered another request with a failed recompilation.
IdleRequest ==
    [ pc |-> "idle", afterFailure |-> FALSE, made |-> << >>,
      tpl |-> NilTemplate, recompiled |-> FALSE, err |-> << >>,
      data |-> EmptyData, status |-> 0, name |-> << >>, buf |-> 0,
      execErr |-> << >>, resp |-> NoResponse, logged |-> << >> ]

HeldBuffers == { reqs[r].buf : r \in Requests } \ { 0 }

InitWith(options, disks) ==
    /\ env \in EnvTypes
    /\ opt \in options
    /\ disk \in disks
    /\ phase = "new"
    /\ panicMsg = << >>
    /\ tpl = NilTemplate
    /\ bufPool = {}
    /\ bufs = [ b \in BufferIds |-> << >> ]
    /\ reqs = [ r \in Requests |-> IdleRequest ]
    /\ renders = 0

Init == InitWith(ServeOptions, { InitialDisk })

\* Templater panics with s.panic, or returns the handler closing over s.tpl.
TemplaterReturns(s) ==
    /\ phase' = IF s.err # << >> THEN "panicked" ELSE "serving"
    /\ panicMsg' = s.panic
    /\ opt' = s.opt
    /\ tpl' = s.tpl

\* Templater(opts...): panics, or returns the handler.
Templater ==
    /\ phase = "new"
    /\ TemplaterReturns(TemplaterSetup(disk, opt))
    /\ UNCHANGED << env, disk, bufPool, bufs, reqs, renders >>

\* The handler has returned h for request r, which arrived after a failure
\* or not.  When the handler has written the error response, the chain
\* stops and no route handler runs.
Handled(r, h, after) ==
    /\ reqs' = [ reqs EXCEPT ![r] =
                   [ @ EXCEPT !.pc = IF h.mapped THEN "route" ELSE "done",
                              !.afterFailure = after,
                              !.made = << >>,
                              !.tpl = h.tpl,
                              !.recompiled = h.recompiled,
                              !.err = h.err,
                              !.resp = h.resp ] ]
    /\ tpl' = h.shared

\* The handler has built its renderer for request r and, when it compiles
\* again, newTemplate has got made from newFileSystem (or from
\* opt.FileSystem): on an error the handler returns at once, otherwise the
\* loop over the Files made comes next.
Arrived(r, made, after) ==
    IF Recompiles(env, opt) /\ made.err = << >>
    THEN /\ reqs' = [ reqs EXCEPT ![r] =
                        [ @ EXCEPT !.pc = "compile",
                                   !.afterFailure = after,
                                   !.made = made.fs.files,
                                   !.tpl = tpl,
                                   !.recompiled = TRUE ] ]
         /\ tpl' = tpl
    ELSE Handled(r, HandlerWith(env, opt, tpl,
                                CompileWith(disk, made, [ dirs |-> << >>, err |-> << >> ])),
                 after)

\* A request arrives and the middleware handler runs up to the end of the
\* walk of the primary directory.  The handler reads the disk in many
\* system calls and an editor may write between any two of them; of the
\* files the walk reads only one is ever written (EditablePaths), so the
\* walk is one step, taken when that file is read.
Serve(r) ==
    /\ phase = "serving"
    /\ reqs[r].pc = "idle"
    /\ \A q \in 1..(r - 1) : reqs[q].pc # "idle"
    /\ Arrived(r, PrimaryFS(disk, opt.Extensions, opt.FileSystem, opt.Directory),
               \E q \in Requests : reqs[q].pc = "done")
    /\ UNCHANGED << env, opt, disk, phase, panicMsg, bufPool, bufs, renders >>

\* The rest of newTemplate in the handler: the append directories are
\* resolved and the loop over the Files made reads the overlay files from
\* the disk as it is now, which an editor may have written since the walk;
\* then the handler returns.  Of the files the loop reads only one is ever
\* written, so the loop is one step, taken when that file is read.
Recompile(r) ==
    /\ phase = "serving"
    /\ reqs[r].pc = "compile"
    /\ Handled(r, HandlerWith(env, opt, tpl,
                              CompileWith(disk,
                                          [ fs |-> fileSystem(reqs[r].made), err |-> << >> ],
                                          ResolveDirs(disk, Reverse(opt.AppendDirectories), 1))),
               reqs[r].afterFailure)
    /\ UNCHANGED << env, opt, disk, phase, panicMsg, bufPool, bufs, renders >>

\* The route handler sets data["Name"] and calls t.HTML(status, name), which
\* executes the template into buffer b, whose content was content, and
\* answers; the sink takes the first m bytes of the body.
RunHTML(r, call, b, content) ==
    LET x == HTMLExecute(reqs[r].tpl, call.name,
                         SetKey(reqs[r].data, "Name", call.who), content)
    IN  \E m \in WriteCounts(Len(x.content)) :
            LET h == HTMLRespond(reqs[r].resp, env, opt.ContentType, call.status,
                                 x.content, x.err, m)
            IN  /\ reqs' = [ reqs EXCEPT ![r] =
                               [ @ EXCEPT !.pc = "defer", !.status = call.status,
                                          !.name = call.name, !.buf = b,
                                          !.data = x.data, !.execErr = x.err,
                                          !.resp = h.resp,
                                          !.logged = @ \o h.logged ] ]
                /\ bufs' = [ bufs EXCEPT ![b] = h.content ]

\* A Get that would hand out a buffer and leave it in the pool.
RenderGetKeeping(r) ==
    /\ reqs[r].pc = "route"
    /\ \E call \in RouteCalls, b \in bufPool :
        /\ RunHTML(r, call, b, bufs[b])
        /\ bufPool' = bufPool
    /\ UNCHANGED << env, opt, disk, phase, panicMsg, tpl, renders >>

\* HTML, bufPool.Get() returning a buffer of the pool.
RenderGet(r) ==
    /\ reqs[r].pc = "route"
    /\ \E call \in RouteCalls, b \in bufPool :
        /\ RunHTML(r, call, b, bufs[b])
        /\ bufPool' = bufPool \ { b }
    /\ UNCHANGED << env, opt, disk, phase, panicMsg, tpl, renders >>

\* HTML, bufPool.Get() finding no buffer, or ignoring the pool, and calling
\* New.
RenderNew(r) ==
    /\ reqs[r].pc = "route"
    /\ BufferIds \ (bufPool \cup HeldBuffers) # {}
    /\ \E call \in RouteCalls :
        RunHTML(r, call, MinOf(BufferIds \ (bufPool \cup HeldBuffers)), << >>)
    /\ UNCHANGED << env, opt, disk, phase, panicMsg, tpl, bufPool, renders >>

\* The deferred function of HTML runs, HTML returns and the request is over.
Finish(r) ==
    /\ reqs[r].pc = "defer"
    /\ LET d == HTMLDeferred(bufPool, bufs, reqs[r].buf)
       IN  /\ bufPool' = d.pool
           /\ bufs' = d.contents
    /\ reqs' = [ reqs EXCEPT ![r] = IdleRequest ]
    /\ renders' = IF renders < MaxRenders THEN renders + 1 ELSE renders
    /\ UNCHANGED << env, opt, disk, phase, panicMsg, tpl >>

\* The server is done with a request the middleware answered.
Close(r) ==
    /\ reqs[r].pc = "done"
    /\ reqs' = [ reqs EXCEPT ![r] = IdleRequest ]
    /\ UNCHANGED << env, opt, disk, phase, panicMsg, tpl, bufPool, bufs, renders >>

\* sync.Pool drops its items at a garbage collection.
PoolCleanup ==
    /\ bufPool # {}
    /\ bufPool' = {}
    /\ UNCHANGED << env, opt, disk, phase, panicMsg, tpl, bufs, reqs, renders >>

\* The directories the configuration names (an edit elsewhere is nothing the
\* program can see).
Watched(o) ==
    (IF o.FileSystem.nil THEN { o.Directory } ELSE {}) \cup Range(o.AppendDirectories)

\* Somebody edits a template file on disk.
EditFile(path, src) ==
    /\ phase = "serving"
    /\ \E d \in Watched(opt) : HasPrefix(path, d \o << Separator >>)
    /\ isFile(disk, path)
    /\ disk[path].data # src
    /\ disk' = [ disk EXCEPT ![path] = FileEntry(src) ]
    /\ UNCHANGED << env, opt, phase, panicMsg, tpl, bufPool, bufs, reqs, renders >>

Next ==
    \/ Templater
    \/ \E r \in Requests : Serve(r)
    \/ \E r \in Requests : Recompile(r)
    \/ \E r \in Requests : RenderGet(r)
    \/ \E r \in Requests : RenderNew(r)
    \/ \E r \in Requests : Finish(r)
    \/ \E r \in Requests : Close(r)
    \/ PoolCleanup
    \/ \E path \in EditablePaths, src \in EditSources : EditFile(path, src)

Spec == Init /\ [][Next]_vars

\* The first compilation alone, over more configurations and disks.
InitCompile == InitWith(OptionChoices, DiskChoices)

NextCompile == Templater

SpecCompile == InitCompile /\ [][NextCompile]_vars

\* The handler serving one request after another: a request arrives when the
\* one before it is over.
NextSeq ==
    \/ Templater
    \/ Serve(1)
    \/ Recompile(1)
    \/ RenderGet(1)
    \/ RenderNew(1)
    \/ Finish(1)
    \/ Close(1)
    \/ PoolCleanup
    \/ \E path \in EditablePaths, src \in EditSources : EditFile(path, src)

SpecSeq == Init /\ [][NextSeq]_vars

(***************************************************************************)
(* The compilation Templater starts with (SpecCompile)                     *)
(***************************************************************************)

\* The Files newFileSystem enumerates from the primary directory.
PrimaryFiles == newFileSystem(disk, opt.Directory, opt.Extensions).fs.files

\* The append directories that hold a file at relative path rel.
Holding(rel) ==
    { d \in Range(opt.AppendDirectories) : isFile(disk, Join(d, rel)) }

\* C1: overlay precedence.  For every file enumerated from the primary
\* directory, the template of that name is parsed from the content of an
\* append directory's file at the same relative path when there is one, and
\* from the primary file's content otherwise; with no append directory
\* holding any of the files, a compilation fails only on a source that does
\* not parse.
C1_OverlayPrecedence ==
    /\ (phase = "serving" /\ opt.FileSystem.nil) =>
           \A i \in DOMAIN PrimaryFiles :
               LET f   == PrimaryFiles[i]
                   rel == f.name \o f.ext
               IN  IF Holding(rel) = {}
                   THEN tpl.set[f.name] = f.data
                   ELSE \E d \in Holding(rel) :
                            tpl.set[f.name] = disk[Join(d, rel)].data
    /\ (/\ phase = "panicked"
        /\ opt.FileSystem.nil
        /\ newFileSystem(disk, opt.Directory, opt.Extensions).err = << >>) =>
           \E i \in DOMAIN PrimaryFiles :
               \/ Holding(PrimaryFiles[i].name \o PrimaryFiles[i].ext) # {}
               \/ Parse(PrimaryFiles[i].name, PrimaryFiles[i].data) # << >>

\* C2: the primary directory dictates membership.  In directory mode the
\* names of the compiled set are those of the primary walk, and each has a
\* file under the primary directory at name + an allowed extension: a file
\* that only an append directory holds gives no name.
C2_PrimaryDictatesMembership ==
    (phase = "serving" /\ opt.FileSystem.nil) =>
        /\ DOMAIN tpl.set = { PrimaryFiles[i].name : i \in DOMAIN PrimaryFiles }
        /\ \A name \in DOMAIN tpl.set :
               \E ext \in Range(opt.Extensions) :
                   isFile(disk, Join(opt.Directory, name \o ext))

\* Two append directories, the first holding extra.tmpl, which the primary
\* directory lacks: the compiled set has no template "extra".
C2_Witness ==
    /\ phase = "serving"
    /\ opt.FileSystem.nil
    /\ opt.AppendDirectories = << Custom, Local >>
    /\ Tmpl \in Range(opt.Extensions)
    /\ isFile(disk, Custom \o << "/", "extra", ".", "tmpl" >>)
    /\ ~isFile(disk, opt.Directory \o << "/", "extra", ".", "tmpl" >>)
    /\ << "extra" >> \notin DOMAIN tpl.set
    /\ << "home" >> \in DOMAIN tpl.set

\* C3: inventory and naming.  In directory mode a compilation that succeeds
\* yields the entries named by the paths relative to the primary directory,
\* extension stripped, of the regular files under it whose extension (from
\* the first "." of the file's own name) is allowed, and no other entry.
C3_InventoryAndNaming ==
    LET \* the file's own name: the last element of its path
        base(path) ==
            LET seps == { i \in DOMAIN path : path[i] = Separator }
            IN  SubSeq(path, (CHOOSE i \in seps : \A j \in seps : j <= i) + 1,
                       Len(path))
        \* the regular files under the primary directory, at any depth
        under == { p \in DOMAIN disk :
                     HasPrefix(p, opt.Directory \o << Separator >>) /\ isFile(disk, p) }
    IN  (phase = "serving" /\ opt.FileSystem.nil) =>
            DOMAIN tpl.set =
                { ToSlash(SubSeq(Rel(opt.Directory, p), 1,
                                 Len(Rel(opt.Directory, p)) - Len(getExt(base(p))))) :
                    p \in { q \in under : getExt(base(q)) \in Range(opt.Extensions) } }

\* The positions in files of the Files whose content cannot be fetched or
\* does not parse, the append directories being dirs.
Failing(files, dirs) ==
    { i \in DOMAIN files :
        \/ FileSource(disk, dirs, files[i]).err # << >>
        \/ Parse(files[i].name, FileSource(disk, dirs, files[i]).data) # << >> }

\* C4: all-or-nothing compilation.  When the content resolved for some file
\* cannot be fetched or does not parse, newTemplate returns no template set
\* and an error naming the first such template, whatever parsed before it.
C4_AllOrNothing ==
    LET made  == PrimaryFS(disk, opt.Extensions, opt.FileSystem, opt.Directory)
        dirs  == ResolveDirs(disk, Reverse(opt.AppendDirectories), 1).dirs
        files == made.fs.files
    IN  (phase # "new" /\ made.err = << >> /\ Failing(files, dirs) # {}) =>
            /\ phase = "panicked"
            /\ tpl = NilTemplate
            /\ Contains(panicMsg, files[MinOf(Failing(files, dirs))].name)

\* about.html has parsed when home.tmpl, the second file of the walk, fails
\* to: no set is returned and the error names "home".
C4_Witness ==
    /\ phase = "panicked"
    /\ opt.FileSystem.nil
    /\ opt.Directory = Templates
    /\ opt.AppendDirectories = << >>
    /\ disk[HomeOf(Templates)].data = SrcBad
    /\ Parse(<< "about" >>, disk[<< "templates", "/", "about", ".", "html" >>].data) = << >>
    /\ PrimaryFiles[1].name = << "about" >>
    /\ PrimaryFiles[2].name = << "home" >>
    /\ tpl = NilTemplate
    /\ Contains(panicMsg, << "parse " >> \o Quote(<< "home" >>))

(***************************************************************************)
(* Rendering (template.HTML) and the request handler (Spec)                *)
(***************************************************************************)

\* What executing the template of request r writes and the error it returns.
Executed(r) == ExecuteTemplate(reqs[r].tpl, reqs[r].name, reqs[r].data)

\* Request r has called HTML and the execution has succeeded / has failed.
Rendered(r) == reqs[r].pc = "defer" /\ reqs[r].execErr = << >>
RenderFailed(r) == reqs[r].pc = "defer" /\ reqs[r].execErr # << >>

\* C5: a successful render.  The name is in the set; the response gets the
\* header Content-Type = configured type + "; charset=utf-8", then the
\* status HTML was called with, then the bytes the execution produced
\* against the request's Data (all of them unless the sink fails the write),
\* in this order.
C5_SuccessfulRender ==
    \A r \in Requests :
        Rendered(r) =>
            /\ reqs[r].name \in DOMAIN reqs[r].tpl.set
            /\ Executed(r).err = << >>
            /\ reqs[r].resp.contentType = opt.ContentType \o << "; charset=utf-8" >>
            /\ reqs[r].resp.status = reqs[r].status
            /\ reqs[r].resp.body \o bufs[reqs[r].buf] = Executed(r).out
            /\ reqs[r].logged = << >> => reqs[r].resp.body = Executed(r).out
            /\ reqs[r].resp.log =
                   << "Header.Set", "WriteHeader" >>
                   \o (IF Executed(r).out = << >> THEN << >> ELSE << "Write" >>)

\* HTML(404, "home") with Name = "Joe" under the default content type.
C5_Witness ==
    \E r \in Requests :
        /\ Rendered(r)
        /\ reqs[r].status = 404
        /\ reqs[r].tpl.set[reqs[r].name] = SrcHello
        /\ reqs[r].resp.contentType = << "text/html", "; charset=utf-8" >>
        /\ reqs[r].resp.status = 404
        /\ reqs[r].resp.body = << "Hello, ", "Joe", "!" >>

\* C6: a failed render writes nothing partial.  The response is the error
\* response alone: status 500, not the status HTML was called with; the
\* content type of http.Error, not the configured one; no byte of what the
\* execution had put in the buffer, which is still there.
C6_FailedRenderWritesNothingPartial ==
    \A r \in Requests :
        RenderFailed(r) =>
            /\ reqs[r].execErr = Executed(r).err
            /\ reqs[r].resp.status = StatusInternalServerError
            /\ reqs[r].resp.status # reqs[r].status
            /\ reqs[r].resp.log = << "Header.Set", "WriteHeader", "Write" >>
            /\ reqs[r].resp.contentType = << "text/plain; charset=utf-8" >>
            /\ reqs[r].resp.contentType # opt.ContentType \o << "; charset=utf-8" >>
            /\ reqs[r].resp.body \in { reqs[r].execErr \o << "\n" >>,
                                       StatusText500 \o << "\n" >> }
            /\ bufs[reqs[r].buf] = Executed(r).out

\* A runtime error after "Hi" has been rendered: the response is the 500 and
\* "Hi" is in the buffer only.
C6_Witness ==
    \E r \in Requests :
        /\ RenderFailed(r)
        /\ reqs[r].name \in DOMAIN reqs[r].tpl.set
        /\ reqs[r].tpl.set[reqs[r].name] = SrcRt
        /\ bufs[reqs[r].buf] = << "Hi" >>
        /\ reqs[r].status = 200
        /\ reqs[r].resp.status = StatusInternalServerError
        /\ ~Contains(reqs[r].resp.body, << "Hi" >>)

\* C7: error verbosity.  A failed execution is logged in every environment;
\* the body of the 500 is the error text in development and the generic
\* status text otherwise, so that it has the error text if and only if the
\* environment is development.
C7_ErrorVerbosityByMode ==
    \A r \in Requests :
        RenderFailed(r) =>
            /\ reqs[r].logged = << "rendering" >>
            /\ reqs[r].resp.body =
                   (IF env = EnvTypeDev THEN reqs[r].execErr ELSE StatusText500)
                   \o << "\n" >>
            /\ env = EnvTypeDev <=> Contains(reqs[r].resp.body, reqs[r].execErr)

\* An unknown template name in development: the body says so.
C7_Witness ==
    \E r \in Requests :
        /\ RenderFailed(r)
        /\ env = EnvTypeDev
        /\ reqs[r].name = << "extra" >>
        /\ reqs[r].logged = << "rendering" >>
        /\ reqs[r].resp.body =
               << "html/template: ", "\"", "extra", "\"", " is undefined", "\n" >>

\* C8: live editing.  When the handler passes a request on, in development
\* with a directory-based configuration and the files unchanged since the
\* request arrived (they were changed between requests, not during this
\* one), the set the request renders with has, for every file of the primary
\* directory, the content now on disk (that of an append directory's file at
\* the same relative path when there is one); in another environment it is
\* the set compiled at setup.
C8_LiveEditing ==
    [][ \A r \in Requests :
            (reqs[r].pc # "route" /\ reqs'[r].pc = "route" /\ opt.FileSystem.nil) =>
                IF env = EnvTypeDev
                THEN reqs[r].made = PrimaryFiles =>
                     \A i \in DOMAIN PrimaryFiles :
                         LET f   == PrimaryFiles[i]
                             rel == f.name \o f.ext
                         IN  IF Holding(rel) = {}
                             THEN reqs'[r].tpl.set[f.name] = f.data
                             ELSE \E d \in Holding(rel) :
                                      reqs'[r].tpl.set[f.name] = disk[Join(d, rel)].data
                ELSE reqs'[r].tpl = Compile(InitialDisk, opt).tpl ]_vars

\* C9: a failed recompilation is recoverable.  The request whose
\* recompilation failed is answered with a 500 carrying the error; the set
\* the handler closes over stays the one compiled at setup; a request that
\* the handler passes on, after a failure too, has a compiled set: a fresh
\* one, or the one of the setup when it does not recompile.
C9_RecoverableRecompilationFailure ==
    /\ \A r \in Requests :
           reqs[r].pc = "done" =>
               /\ env = EnvTypeDev
               /\ reqs[r].err # << >>
               /\ reqs[r].resp =
                      HttpError(NoResponse, << "template: " >> \o reqs[r].err,
                                StatusInternalServerError)
    /\ phase = "serving" => tpl = Compile(InitialDisk, opt).tpl /\ ~tpl.nil
    /\ \A r \in Requests :
           reqs[r].pc \in { "route", "defer" } =>
               /\ ~reqs[r].tpl.nil
               /\ reqs[r].pc = "route" => reqs[r].resp = NoResponse
               /\ ~reqs[r].recompiled => reqs[r].tpl = tpl
               /\ Rendered(r) => reqs[r].resp.status = reqs[r].status

\* A request answered with the 500 of a failed recompilation, and one that
\* arrived after it, recompiled, and has rendered "home" with status 200.
C9_Witness ==
    \E q, r \in Requests :
        /\ reqs[q].pc = "done"
        /\ reqs[q].resp.status = StatusInternalServerError
        /\ Contains(reqs[q].resp.body, << "parse " >> \o Quote(<< "home" >>))
        /\ reqs[r].afterFailure
        /\ reqs[r].recompiled
        /\ Rendered(r)
        /\ reqs[r].name = << "home" >>
        /\ reqs[r].resp.status = 200
        /\ reqs[r].resp.body = << "Hello, ", "Flamego", "!" >>
        /\ tpl = Compile(InitialDisk, opt).tpl

(***************************************************************************)
(* The buffer pool, one request after another (SpecSeq)                    *)
(***************************************************************************)

\* C10 as stated: sequential renders never cause the pool to hold more than
\* one buffer.
C10_PoolHoldsAtMostOne == Cardinality(bufPool) <= 1

\* C10: buffer pool hygiene.  Every buffer that no call of HTML holds is
\* empty, in the pool or dropped from it, whatever the exit path of the call
\* that returned it; the buffer a call holds has what its own execution
\* produced and the sink has not taken, nothing of a render before; N
\* sequential renders leave at most N buffers in the pool.
C10_BufferPoolHygiene ==
    /\ \A b \in BufferIds \ HeldBuffers : bufs[b] = << >>
    /\ bufPool \cap HeldBuffers = {}
    /\ \A r \in Requests :
           /\ Rendered(r) => reqs[r].resp.body \o bufs[reqs[r].buf] = Executed(r).out
           /\ RenderFailed(r) => bufs[reqs[r].buf] = Executed(r).out
           /\ reqs[r].pc # "defer" => reqs[r].buf = 0
    /\ renders < MaxRenders => Cardinality(bufPool) <= renders

\* The second render in a row: the first has put its buffer back, this one
\* has failed to write what it rendered, which is still in its buffer.
C10_Witness ==
    /\ renders = 1
    /\ Rendered(1)
    /\ reqs[1].logged = << "[template] Failed to write out rendered HTML" >>
    /\ bufs[reqs[1].buf] = << "Hello, ", "Flamego", "!" >>
    /\ reqs[1].resp.body = << >>
    /\ bufPool = {}

(***************************************************************************)
(* Resolution order, recompilation policy, bundles, isolation, resolvers   *)
(***************************************************************************)

\* C11: content resolution order.  For every file enumerated from the
\* primary directory, the content parsed is that of the first directory that
\* holds a file at the same relative path, the append directories scanned
\* from the last listed to the first and the primary directory last,
\* whatever the content (a zero-length one too).
C11_ContentResolutionOrder ==
    (phase = "serving" /\ opt.FileSystem.nil) =>
        \A i \in DOMAIN PrimaryFiles :
            LET f       == PrimaryFiles[i]
                rel     == f.name \o f.ext
                dirs    == Reverse(opt.AppendDirectories)
                holders == { j \in DOMAIN dirs : isFile(disk, Join(dirs[j], rel)) }
            IN  tpl.set[f.name] =
                    IF holders = {} THEN f.data
                    ELSE disk[Join(dirs[MinOf(holders)], rel)].data

\* C12: recompilation policy.  The handler compiles again for a request if
\* and only if the environment is development and no FileSystem was
\* supplied; otherwise the request renders with the set compiled at setup.
C12_RecompilationPolicy ==
    \A r \in Requests :
        reqs[r].pc # "idle" =>
            /\ reqs[r].recompiled <=> (env = EnvTypeDev /\ opt.FileSystem.nil)
            /\ ~(env = EnvTypeDev /\ opt.FileSystem.nil) =>
                   reqs[r].tpl = Compile(InitialDisk, opt).tpl

\* C13 as stated: with a FileSystem supplied, every template is parsed from
\* the FileSystem's own content, whatever the append directories hold.
C13_NoOverlaysInBundleMode ==
    (phase = "serving" /\ ~opt.FileSystem.nil) =>
        \A i \in DOMAIN opt.FileSystem.files :
            tpl.set[opt.FileSystem.files[i].name] = opt.FileSystem.files[i].data

\* C13: the append directories apply to a supplied FileSystem too.  For
\* every file of it, when no append directory holds a file at name + ext
\* the template is parsed from the FileSystem's own content, and when the
\* first append directory that holds one (scanning from the last listed)
\* holds a non-empty one, from that file's content.
C13_OverlaysInBundleMode ==
    (phase = "serving" /\ ~opt.FileSystem.nil) =>
        \A i \in DOMAIN opt.FileSystem.files :
            LET f       == opt.FileSystem.files[i]
                rel     == f.name \o f.ext
                dirs    == Reverse(opt.AppendDirectories)
                holders == { j \in DOMAIN dirs : isFile(disk, Join(dirs[j], rel)) }
            IN  /\ holders = {} => tpl.set[f.name] = f.data
                /\ (/\ holders # {}
                    /\ disk[Join(dirs[MinOf(holders)], rel)].data # SrcEmpty) =>
                       tpl.set[f.name] = disk[Join(dirs[MinOf(holders)], rel)].data

\* The bundle's home.tmpl is "Hello, {{.Name}}!", custom/home.tmpl is "B":
\* the template "home" is "B".
C13_Witness ==
    /\ phase = "serving"
    /\ ~opt.FileSystem.nil
    /\ opt.AppendDirectories = << Custom >>
    /\ opt.FileSystem.files[1].name = << "home" >>
    /\ opt.FileSystem.files[1].data = SrcHello
    /\ isFile(disk, HomeOf(Custom))
    /\ disk[HomeOf(Custom)].data = SrcB
    /\ tpl.set[<< "home" >>] = SrcB

\* C14: request isolation under concurrency.  In every state the set the
\* handler closes over is the one compiled at setup, every request passed on
\* has a compiled set (its own fresh one, or the shared one when it does not
\* recompile), no two requests hold the same buffer and no held buffer is in
\* the pool; and a step that changes one request (its renderer, Data,
\* response) changes no other request and no buffer but that request's.
C14_RequestIsolation ==
    /\ [](/\ \A r, q \in Requests :
                (r # q /\ reqs[r].buf # 0) => reqs[r].buf # reqs[q].buf
          /\ bufPool \cap HeldBuffers = {}
          /\ phase = "serving" => tpl = Compile(InitialDisk, opt).tpl
          /\ \A r \in Requests :
                reqs[r].pc \in { "route", "defer" } =>
                    /\ ~reqs[r].tpl.nil
                    /\ reqs[r].recompiled \/ reqs[r].tpl = tpl
                    /\ Rendered(r) =>
                           reqs[r].resp.body \o bufs[reqs[r].buf] = Executed(r).out)
    /\ [][ /\ phase = "serving" => tpl' = tpl
           /\ \A r, q \in Requests :
                  (r # q /\ reqs'[r] # reqs[r]) =>
                      /\ reqs'[q] = reqs[q]
                      /\ \A b \in BufferIds :
                             bufs'[b] # bufs[b] => b \in { reqs[r].buf, reqs'[r].buf }
         ]_vars

\* Two requests in flight, each with the set it compiled (the disk was edited
\* between their arrivals), its own Data and its own buffer: each response
\* is what its own set gives for its own Data.
C14_Witness ==
    \E r, q \in Requests :
        /\ r # q
        /\ Rendered(r) /\ Rendered(q)
        /\ reqs[r].recompiled /\ reqs[q].recompiled
        /\ reqs[r].tpl # reqs[q].tpl
        /\ reqs[r].buf # reqs[q].buf
        /\ reqs[r].data["Name"] # reqs[q].data["Name"]
        /\ reqs[r].resp.body = Executed(r).out
        /\ reqs[q].resp.body = Executed(q).out
        /\ reqs[r].resp.body # reqs[q].resp.body
        /\ tpl = Compile(InitialDisk, opt).tpl

\* C15: the same naming rule for both resolvers.  Over the same tree, root
\* and allowed extensions, newFileSystem and EmbedFS either both fail or
\* give the same (name, extension) pairs.
C15_SameNamingRule ==
    (phase # "new" /\ opt.FileSystem.nil) =>
        LET local == newFileSystem(disk, opt.Directory, opt.Extensions)
            embed == EmbedFS(disk, opt.Directory, opt.Extensions)
            pairs(files) == { << files[i].name, files[i].ext >> : i \in DOMAIN files }
        IN  /\ local.err = << >> <=> embed.err = << >>
            /\ (local.err = << >> /\ embed.err = << >>) =>
                   pairs(local.fs.files) = pairs(embed.fs.files)

\* C16: soft-skip versus hard-fail.  The first compilation ends as it would
\* with the append directories that do not exist taken off the list, so a
\* missing one alone causes no error and gives no content; it ends with an
\* error when the primary directory does not exist, when a file the walk
\* matches cannot be read, or when the overlay file chosen for a template
\* cannot be read.
C16_SoftSkipHardFail ==
    phase # "new" =>
        LET others  == opt.AppendDirectories
            present == SelectSeq(others, LAMBDA d : isDir(disk, d))
            without == SetupWith(opt, Compile(disk, [ opt EXCEPT !.AppendDirectories = present ]))
            matched == IF opt.Directory \notin DOMAIN disk THEN {}
                       ELSE { p \in Range(WalkFrom(disk, opt.Directory)) :
                                getExt(p) \in Range(opt.Extensions) }
            made    == PrimaryFS(disk, opt.Extensions, opt.FileSystem, opt.Directory)
            dirs    == Reverse(others)
            holders(f) == { j \in DOMAIN dirs : isFile(disk, Join(dirs[j], f.name \o f.ext)) }
            chosen  == { Join(dirs[MinOf(holders(f))], f.name \o f.ext) :
                           f \in { g \in Range(made.fs.files) : holders(g) # {} } }
        IN  /\ tpl = without.tpl
            /\ panicMsg = without.panic
            /\ (phase = "panicked") = (without.err # << >>)
            /\ (opt.FileSystem.nil /\ opt.Directory \notin DOMAIN disk) =>
                   /\ phase = "panicked"
                   /\ tpl = NilTemplate
                   /\ Contains(panicMsg, << "new file system", ": ", "walk " >> \o Quote(opt.Directory))
            /\ (opt.FileSystem.nil /\ \E p \in matched : ReadFile(disk, p).err # << >>) =>
                   /\ phase = "panicked"
                   /\ tpl = NilTemplate
                   /\ Contains(panicMsg, << "read" >>)
            /\ (made.err = << >> /\ \E p \in chosen : ReadFile(disk, p).err # << >>) =>
                   /\ phase = "panicked"
                   /\ tpl = NilTemplate

\* The handler is returned although "nodir", listed first, does not exist,
\* and "home" has the content of custom/home.tmpl.
C16_Witness ==
    /\ phase = "serving"
    /\ opt.AppendDirectories = << NoDir, Custom >>
    /\ NoDir \notin DOMAIN disk
    /\ isFile(disk, HomeOf(Custom))
    /\ disk[HomeOf(Custom)].data # SrcEmpty
    /\ tpl.set[<< "home" >>] = disk[HomeOf(Custom)].data

\* C17: fatal setup.  In every environment and configuration Templater
\* compiles once, on the disk as it is at setup, before any request: when
\* that compilation fails it panics with the error and no request is ever
\* handled; otherwise the handler it returns closes over the set compiled
\* (seen before the first request and the first edit), the set it closes
\* over is never nil, and every request that is handled has a compiled set.
C17_FatalSetup ==
    LET first == Compile(InitialDisk, parseOptions(opt))
    IN  /\ phase = "new" =>
               /\ tpl = NilTemplate
               /\ panicMsg = << >>
        /\ phase = "panicked" =>
               /\ first.err # << >>
               /\ first.err # PanicBounds =>
                      panicMsg = << "template: new template: " >> \o first.err
               /\ panicMsg # << >>
               /\ tpl = NilTemplate
               /\ disk = InitialDisk
        /\ phase = "serving" =>
               /\ panicMsg = << >>
               /\ ~tpl.nil
        /\ (phase = "serving" /\ disk = InitialDisk /\ renders = 0
               /\ \A r \in Requests : reqs[r] = IdleRequest) =>
               /\ first.err = << >>
               /\ tpl = first.tpl
        /\ phase # "serving" =>
               /\ \A r \in Requests : reqs[r] = IdleRequest
               /\ renders = 0
               /\ bufPool = {}
        /\ \A r \in Requests : reqs[r].pc # "idle" => ~reqs[r].tpl.nil

\* The primary directory "nodir" does not exist: Templater has panicked and
\* no request has been handled.
C17_Witness ==
    /\ phase = "panicked"
    /\ opt = parseOptions(MissingOptions)
    /\ HasPrefix(panicMsg, << "template: new template: ", "new file system" >>)
    /\ tpl = NilTemplate
    /\ \A r \in Requests : reqs[r] = IdleRequest

====
